---- MODULE Spec2Model ----
(***************************************************************************)
(* Bird-observation subsystem of insolar: the TTL cache, the eBird         *)
(* provider (normalisation, de-duplication, ranking) and the /api/birds    *)
(* endpoint (radius widening over the raw-observation cache).              *)
(*                                                                         *)
(* Specifications over the variables below:                                *)
(*   SpecRank    transformObservations followed by deduplicateAndScore on  *)
(*               every bounded list of raw records and every hour;         *)
(*   SpecCache   the Cache class driven by arbitrary set/get/clear/size    *)
(*               calls and a clock;                                        *)
(*   Spec        the GET /api/birds handler, several requests interleaved  *)
(*               at their awaits, over the same cache and clock;           *)
(*   SpecScore   the activity model, server and client mirror;             *)
(*   SpecHelpers hourDistance and the handler's reading of the query;      *)
(*   SpecClient  the client's loadBirdData over its localStorage cache.    *)
(***************************************************************************)
EXTENDS Integers, Sequences, FiniteSets, Bags, TLC

VARIABLES
    rawObs,        \* SpecRank: the raw eBird records handed to the provider
    species,       \* SpecRank: transformObservations(rawObs)
    locationHour,  \* SpecRank: the reference hour, Null or 0..23
    ranked,        \* SpecRank: the list deduplicateAndScore returned
    rpc,           \* SpecRank: "raw" -> "transformed" -> "ranked"
    store,         \* Cache.store: key -> [value, expiresAt]
    now,           \* Date.now(), in milliseconds
    ticks,         \* number of clock advances so far (bounds the run)
    lastOp,        \* SpecCache: the last Cache call and what it returned
    lastSet,       \* SpecCache: history, per key the last set since the last clear
    apiKey,        \* Spec: EBirdProvider.apiKey, fixed when the provider is built
    reqs,          \* Spec: the bag of requests suspended at an await
    started,       \* Spec: number of requests received so far
    resp,          \* Spec: the response the last step sent, NoResp if it sent none
    pops,          \* Spec: history, per cache key the values stored so far and when
    sIn,           \* SpecScore: the arguments handed to the activity model
    sOut,          \* SpecScore: what the server and the client model returned
    spc,           \* SpecScore: "hour" -> "scored", "curve" -> "curved"
    hIn,           \* SpecHelpers: the arguments of a helper or the query of a request
    hOut,          \* SpecHelpers: what the helper or the handler computed from them
    hpc,           \* SpecHelpers: "hours" -> "measured", "query" -> "parsed"
    birdData,      \* SpecClient: localStorage item bird_data, parsed, or NoValue
    featureAvailable, \* SpecClient: the module variable, NoValue (null) until known
    loads,         \* SpecClient: the loadBirdData calls suspended at getBirdData
    loadsStarted,  \* SpecClient: number of loadBirdData calls so far
    returned       \* SpecClient: what the last step returned to its caller

vars == <<rawObs, species, locationHour, ranked, rpc,
          store, now, ticks, lastOp, lastSet,
          apiKey, reqs, started, resp, pops,
          sIn, sOut, spc,
          hIn, hOut, hpc,
          birdData, featureAvailable, loads, loadsStarted, returned>>

rankVars  == <<rawObs, species, locationHour, ranked, rpc>>
cacheVars == <<store, now, ticks, lastOp, lastSet>>
routeVars == <<apiKey, reqs, started, resp, pops>>
scoreVars == <<sIn, sOut, spc>>
helperVars == <<hIn, hOut, hpc>>
clientVars == <<birdData, featureAvailable, loads, loadsStarted, returned>>

----------------------------------------------------------------------------
(* JavaScript values.  null and NaN are kept apart from every number the   *)
(* program computes with (hours, distances and timestamps are >= -24).     *)

Null == -100
NaN  == -200

IsNum(x) == x # Null /\ x # NaN

\* a - b on numbers, NaN as soon as one side is NaN
JsSub(a, b) == IF a = NaN \/ b = NaN THEN NaN ELSE a - b

\* a < b: false as soon as one side is NaN
JsLt(a, b) == a # NaN /\ b # NaN /\ a < b

Min(a, b) == IF a < b THEN a ELSE b
Abs(a) == IF a < 0 THEN -a ELSE a

----------------------------------------------------------------------------
(* Raw eBird records.  obsDt "YYYY-MM-DD HH:mm" is kept as the list of its *)
(* space-separated parts with the time part reduced to its hour field:     *)
(*   <<>>       obsDt missing                                              *)
(*   <<d>>      a date alone, day d                                        *)
(*   <<d, f>>   a date and a time whose hour field is f: a number, or Junk *)
(*              for a field that does not start with a digit.              *)

Junk == -300

MaxObs == 3          \* longest list of raw records
Codes == {"amerob", "blujay", "norcar"}
Days == {1, 2}
Hours == {3, 21}     \* equidistant from hour 0, on either side of midnight
RefHours == {Null, 0, 3, 14, 23}

ObsDts == {<<>>, <<1>>, <<1, Junk>>} \cup {<<d, f>> : d \in Days, f \in Hours}

RawRecords == [speciesCode : Codes, obsDt : ObsDts]

\* parseInt(field, 10)
ParseInt(f) == IF f >= 0 THEN f ELSE NaN

\* new Date(observed_at) as a number of hours, NaN for an Invalid Date
DateParse(dt) ==
    IF Len(dt) = 0 THEN NaN
    ELSE IF Len(dt) = 1 THEN dt[1] * 24
    ELSE IF dt[2] >= 0 /\ dt[2] <= 23 THEN dt[1] * 24 + dt[2]
    ELSE NaN

transformOne(obs) ==
    LET hasTime == Len(obs.obsDt) >= 2
        obsHour == IF hasTime THEN ParseInt(obs.obsDt[2]) ELSE Null
    IN  [species_code |-> obs.speciesCode,
         observed_at  |-> obs.obsDt,
         obs_hour     |-> obsHour]

transformObservations(raw) == [i \in 1..Len(raw) |-> transformOne(raw[i])]

hourDistance_Linear(h1, h2) == Abs(h1 - h2)

hourDistance(h1, h2) ==
    IF h1 = NaN \/ h2 = NaN THEN NaN
    ELSE LET diff == Abs(h1 - h2) IN Min(diff, 24 - diff)

\* distance used by the loop and by the sort: 24 for a null obs_hour
DistOrMax(obsHour, h) == IF obsHour # Null THEN hourDistance(obsHour, h) ELSE 24

----------------------------------------------------------------------------
(* deduplicateAndScore.  byCode is the Map, kept as the list of its values *)
(* in insertion order: Map.set on a key already present keeps its place.   *)

IndexOfCode(byCode, code) ==
    LET found == {i \in 1..Len(byCode) : byCode[i].species_code = code}
    IN  IF found = {} THEN 0 ELSE CHOOSE i \in found : TRUE

\* the else-if branch of the loop: does s replace the stored observation?
ShouldReplace_Recent(existing, s, h) ==
    IF h # Null /\ s.obs_hour # Null
    THEN JsLt(hourDistance(s.obs_hour, h), DistOrMax(existing.obs_hour, h))
    ELSE JsLt(DateParse(existing.observed_at), DateParse(s.observed_at))

ShouldReplace(existing, s, h) ==
    /\ h # Null
    /\ s.obs_hour # Null
    /\ JsLt(hourDistance(s.obs_hour, h), DistOrMax(existing.obs_hour, h))

DedupStep_Append(byCode, s, h) ==
    LET i == IndexOfCode(byCode, s.species_code)
    IN  IF i = 0 THEN Append(byCode, s)
        ELSE IF ShouldReplace(byCode[i], s, h) THEN Append(byCode, s)
        ELSE byCode

DedupStep(byCode, s, h) ==
    LET i == IndexOfCode(byCode, s.species_code)
    IN  IF i = 0 THEN Append(byCode, s)
        ELSE IF ShouldReplace(byCode[i], s, h) THEN [byCode EXCEPT ![i] = s]
        ELSE byCode

RECURSIVE DedupLoop(_, _, _)
DedupLoop(list, byCode, h) ==
    IF list = <<>> THEN byCode
    ELSE DedupLoop(Tail(list), DedupStep(byCode, Head(list), h), h)

\* the two sort keys: distA / distB, and new Date(observed_at)
HourKey(a, h) == DistOrMax(a.obs_hour, h)
DateKey(a) == DateParse(a.observed_at)
SortKey(a, h) == IF h # Null THEN HourKey(a, h) ELSE DateKey(a)

\* the comparator handed to Array.prototype.sort, by branch
Compare(a, b, h) ==
    IF h # Null
    THEN JsSub(HourKey(a, h), HourKey(b, h))
    ELSE JsSub(DateKey(b), DateKey(a))

\* SortCompare: a NaN from the comparator counts as +0
SortCompare(a, b, h) == LET v == Compare(a, b, h) IN IF v = NaN THEN 0 ELSE v

\* ECMA-262 "consistent comparator" over the values being sorted.  Both
\* comparators are a difference of two keys, consistent as long as every key
\* is a number; an element whose key is NaN compares equal to every element,
\* and transitivity then asks every two elements to compare equal.
Consistent(list, h) ==
    LET keys == {SortKey(list[i], h) : i \in 1..Len(list)}
    IN  NaN \notin keys \/ Cardinality(keys \ {NaN}) <= 1

\* x placed after every element that does not sort after it (stable)
InsertSorted(sorted, x, h) ==
    LET k == Cardinality({i \in 1..Len(sorted) : SortCompare(sorted[i], x, h) <= 0})
    IN  SubSeq(sorted, 1, k) \o <<x>> \o SubSeq(sorted, k + 1, Len(sorted))

RECURSIVE StableSort(_, _, _)
StableSort(list, sorted, h) ==
    IF list = <<>> THEN sorted
    ELSE StableSort(Tail(list), InsertSorted(sorted, Head(list), h), h)

Perms(list) ==
    LET I == 1..Len(list)
    IN  {[i \in I |-> list[p[i]]] : p \in {q \in [I -> I] : \A i, j \in I : q[i] = q[j] => i = j}}

\* Array.prototype.sort: the stable order under a consistent comparator,
\* an implementation-defined order of the same elements otherwise
SortOutcomes(list, h) ==
    IF Consistent(list, h) THEN {StableSort(list, <<>>, h)} ELSE Perms(list)

deduplicateAndScore(list, h) == SortOutcomes(DedupLoop(list, <<>>, h), h)

selectNotableSpecies(scored, count) ==
    SubSeq(scored, 1, Min(count, Len(scored)))

----------------------------------------------------------------------------
(* SpecRank: the provider's pure pipeline on every bounded input.          *)

\* species codes are only ever compared for equality, so lists are taken up
\* to renaming: each code first occurs after the codes before it
CodeOrder == <<"amerob", "blujay", "norcar">>
CodeRank(c) == CHOOSE i \in 1..Len(CodeOrder) : CodeOrder[i] = c

Canonical(list) ==
    \A i \in 1..Len(list) :
        LET r == CodeRank(list[i].speciesCode)
        IN  r = 1 \/ \E j \in 1..(i - 1) : CodeRank(list[j].speciesCode) = r - 1

RawLists == UNION {{l \in [1..n -> RawRecords] : Canonical(l)} : n \in 0..MaxObs}

NoCacheState ==
    /\ store = <<>>
    /\ now = 0
    /\ ticks = 0
    /\ lastOp = [op |-> "none"]
    /\ lastSet = <<>>

NoRouteState ==
    /\ apiKey = ""
    /\ reqs = EmptyBag
    /\ started = 0
    /\ resp = [status |-> 0]
    /\ pops = <<>>

NoScoreState ==
    /\ sIn = <<>>
    /\ sOut = <<>>
    /\ spc = "off"

NoHelperState ==
    /\ hIn = <<>>
    /\ hOut = <<>>
    /\ hpc = "off"

NoClientState ==
    /\ birdData = <<>>
    /\ featureAvailable = <<>>
    /\ loads = EmptyBag
    /\ loadsStarted = 0
    /\ returned = [kind |-> "none"]

NoRankState ==
    /\ rawObs = <<>>
    /\ species = <<>>
    /\ locationHour = Null
    /\ ranked = <<>>
    /\ rpc = "off"

InitRank ==
    /\ rawObs \in RawLists
    /\ locationHour \in RefHours
    /\ species = <<>>
    /\ ranked = <<>>
    /\ rpc = "raw"
    /\ NoCacheState
    /\ NoRouteState
    /\ NoScoreState
    /\ NoHelperState
    /\ NoClientState

Transform ==
    /\ rpc = "raw"
    /\ species' = transformObservations(rawObs)
    /\ rpc' = "transformed"
    /\ UNCHANGED <<rawObs, locationHour, ranked, cacheVars, routeVars, scoreVars, helperVars, clientVars>>

Rank ==
    /\ rpc = "transformed"
    /\ \E out \in deduplicateAndScore(species, locationHour) : ranked' = out
    /\ rpc' = "ranked"
    /\ UNCHANGED <<rawObs, species, locationHour, cacheVars, routeVars, scoreVars, helperVars, clientVars>>

NextRank == Transform \/ Rank

SpecRank == InitRank /\ [][NextRank]_vars

----------------------------------------------------------------------------
(* The Cache class.  store is the Map: a function from the keys present to *)
(* [value, expiresAt].  A value-or-null result is <<v>> or <<>>.           *)

NoValue == <<>>
Some(v) == <<v>>

Undefined == -400       \* an argument left out of a call
DefaultTtl == 1800      \* set(key, value, ttlSeconds = 1800)

Remove(st, key) == [k \in DOMAIN st \ {key} |-> st[k]]

makeKey(lat, lon) == <<lat, lon>>

Expired(entry, t) == t > entry.expiresAt

\* what get(key) returns at time t
CacheGet_IgnoreExpiry(st, key, t) ==
    IF key \notin DOMAIN st THEN NoValue ELSE Some(st[key].value)

CacheGet(st, key, t) ==
    IF key \notin DOMAIN st THEN NoValue
    ELSE IF Expired(st[key], t) THEN NoValue
    ELSE Some(st[key].value)

\* the store get(key) leaves behind at time t
CacheAfterGet_Keep(st, key, t) == st

CacheAfterGet(st, key, t) ==
    IF key \in DOMAIN st /\ Expired(st[key], t) THEN Remove(st, key) ELSE st

\* the store set(key, value, ttlSeconds) leaves behind at time t
CacheSet_KeepExpiry(st, key, value, ttl, t) ==
    LET ttlSeconds == IF ttl = Undefined THEN DefaultTtl ELSE ttl
        expiresAt  == IF key \in DOMAIN st THEN st[key].expiresAt
                      ELSE t + ttlSeconds * 1000
    IN  (key :> [value |-> value, expiresAt |-> expiresAt]) @@ st

CacheSet(st, key, value, ttl, t) ==
    LET ttlSeconds == IF ttl = Undefined THEN DefaultTtl ELSE ttl
        expiresAt  == t + ttlSeconds * 1000
    IN  (key :> [value |-> value, expiresAt |-> expiresAt]) @@ st

CacheClear(st) == <<>>

CacheSize(st) == Cardinality(DOMAIN st)

----------------------------------------------------------------------------
(* SpecCache: the cache under arbitrary calls and clock advances.          *)

MaxTicks == 1                         \* clock advances in one run
TickSteps == {1, 1000, 1001}           \* 1 ms, 1 s, just past 1 s
RouteTickSteps == {21600000, 21600001}   \* 6 h, just past 6 h
CacheKeys == {"k1", "k2"}
CacheValues == {1, 2}
Ttls == {0, 1, Undefined}

Call(op, key, value, ttl, ret, prev) ==
    [op |-> op, key |-> key, value |-> value, ttl |-> ttl, ret |-> ret, prev |-> prev]

NoCall == Call("none", "", 0, 0, NoValue, NoValue)

EntryOf(st, key) == IF key \in DOMAIN st THEN Some(st[key]) ELSE NoValue

InitCache ==
    /\ store = <<>>
    /\ now = 0
    /\ ticks = 0
    /\ lastOp = NoCall
    /\ lastSet = <<>>
    /\ NoRankState
    /\ NoRouteState
    /\ NoScoreState
    /\ NoHelperState
    /\ NoClientState

CSet(key, value, ttl) ==
    /\ store' = CacheSet(store, key, value, ttl, now)
    /\ lastSet' = (key :> store'[key]) @@ lastSet
    /\ lastOp' = Call("set", key, value, ttl, NoValue, EntryOf(store, key))
    /\ UNCHANGED <<now, ticks, rankVars, scoreVars, routeVars, helperVars, clientVars>>

CGet(key) ==
    /\ store' = CacheAfterGet(store, key, now)
    /\ lastOp' = Call("get", key, 0, 0, CacheGet(store, key, now), EntryOf(store, key))
    /\ UNCHANGED <<now, ticks, lastSet, rankVars, scoreVars, routeVars, helperVars, clientVars>>

CClear ==
    /\ store' = CacheClear(store)
    /\ lastSet' = <<>>
    /\ lastOp' = Call("clear", "", 0, 0, NoValue, NoValue)
    /\ UNCHANGED <<now, ticks, rankVars, scoreVars, routeVars, helperVars, clientVars>>

CSize ==
    /\ lastOp' = Call("size", "", 0, 0, Some(CacheSize(store)), NoValue)
    /\ UNCHANGED <<store, now, ticks, lastSet, rankVars, scoreVars, routeVars, helperVars, clientVars>>

CTick(d) ==
    /\ ticks < MaxTicks
    /\ now' = now + d
    /\ ticks' = ticks + 1
    /\ lastOp' = Call("tick", "", 0, 0, NoValue, NoValue)
    /\ UNCHANGED <<store, lastSet, rankVars, scoreVars, routeVars, helperVars, clientVars>>

NextCache ==
    \/ \E k \in CacheKeys, v \in CacheValues, ttl \in Ttls : CSet(k, v, ttl)
    \/ \E k \in CacheKeys : CGet(k)
    \/ CClear
    \/ CSize
    \/ \E d \in TickSteps : CTick(d)

SpecCache == InitCache /\ [][NextCache]_vars

----------------------------------------------------------------------------
(* GET /api/birds.  A request runs from its arrival to its first await in   *)
(* one step, and from the return of an awaited fetch to the next await or  *)
(* to the response in one step; requests interleave at the awaits only.    *)
(* Requests are taken past authMiddleware.  The cache is the singleton the *)
(* other routes share; they use other key prefixes and never call clear.   *)

MaxRequests == 3     \* requests received in one run

\* query parameters: Undefined when absent, Junk for text that is no number;
\* lat and lon otherwise in units of 0.0001 degree
Lon == -1278
HourInputs == {Undefined, 3}
Queries ==
    \* 51.5066 and 51.5074 round to 51.507, 51.5076 rounds to 51.508
    [lat : {515066}, lon : {Lon}, hour : HourInputs]
        \cup [lat : {515074, 515076}, lon : {Lon}, hour : {Undefined}]
        \cup [lat : {Undefined, Junk, 900001}, lon : {Lon}, hour : {Undefined}]
        \cup [lat : {515066}, lon : {Undefined, Junk, 1800001}, hour : {3}]

ApiKeys == {"", "your_ebird_api_key_here", "k3y"}

isAvailable_NonEmpty(key) == key # ""

isAvailable(key) == key # "" /\ key # "your_ebird_api_key_here"

\* parseFloat / parseInt of a query parameter that is present
ParseNumber(x) == IF x = Junk THEN NaN ELSE x

\* Math.round(x * 1000) / 1000, in units of 0.001 degree (halves round up)
Round3(x) == (x + 5) \div 10

LocationHourOf_NoClamp(hour) ==
    IF hour = Undefined THEN Null
    ELSE LET n == ParseNumber(hour)
         IN  IF n = NaN \/ n = 0 THEN 0 ELSE n

\* Math.max(0, Math.min(23, parseInt(hour, 10) || 0)), null without hour
LocationHourOf(hour) ==
    IF hour = Undefined THEN Null
    ELSE LET n == ParseNumber(hour)
             v == IF n = NaN \/ n = 0 THEN 0 ELSE n
         IN  IF v > 23 THEN 23 ELSE IF v < 0 THEN 0 ELSE v

CacheKeyOf(q) ==
    <<"birds-raw">> \o makeKey(Round3(ParseNumber(q.lat)), Round3(ParseNumber(q.lon)))

\* what the handler answers before it touches the cache: 0 to go on
EarlyStatus_NoRangeCheck(key, q) ==
    IF ~isAvailable(key) THEN 503
    ELSE IF q.lat = Undefined \/ q.lon = Undefined THEN 400
    ELSE IF ParseNumber(q.lat) = NaN \/ ParseNumber(q.lon) = NaN THEN 400
    ELSE 0

EarlyStatus(key, q) ==
    IF ~isAvailable(key) THEN 503
    ELSE IF q.lat = Undefined \/ q.lon = Undefined THEN 400
    ELSE IF ParseNumber(q.lat) = NaN \/ ParseNumber(q.lon) = NaN THEN 400
    ELSE IF \/ ParseNumber(q.lat) < -900000 \/ ParseNumber(q.lat) > 900000
            \/ ParseNumber(q.lon) < -1800000 \/ ParseNumber(q.lon) > 1800000
         THEN 400
    ELSE 0

TightRadius == 3
WideRadius == 10
SparseThreshold == 5
RawTtl == 21600
NotableCount == 3

\* new Set(observations.map(s => s.species_code)).size
UniqueCount_Length(observations) == Len(observations)

UniqueCount(observations) ==
    Cardinality({observations[i].species_code : i \in 1..Len(observations)})

\* the upstream service: a non-success answer, or one of these record lists
FeedCodes == <<"amerob", "blujay", "norcar", "houspa", "eursta">>
FeedDts == <<<<2, 21>>, <<1, 3>>, <<2>>, <<1, 21>>, <<2, 3>>>>
Feed(n, dups) ==
    [i \in 1..(n + dups) |->
        IF i <= n THEN [speciesCode |-> FeedCodes[i], obsDt |-> FeedDts[i]]
        ELSE [speciesCode |-> FeedCodes[1], obsDt |-> <<1, 3>>]]
Feeds == {Feed(4, 2), Feed(5, 0)}
UpstreamResults == {[ok |-> FALSE, body |-> <<>>]} \cup {[ok |-> TRUE, body |-> f] : f \in Feeds}

NoResp == [status |-> 0]

\* what a step leaves in resp when the request it received is suspended at its
\* first await; about is the query a response or a suspension belongs to,
\* NoQuery on the steps that resume a request
Suspended(about) == [status |-> 0, about |-> about]
NoQuery == <<>>

ErrorResp(status, about, fetched) ==
    [status |-> status, about |-> about, fetched |-> fetched]

Init ==
    /\ apiKey \in ApiKeys
    /\ reqs = EmptyBag
    /\ started = 0
    /\ resp = NoResp
    /\ pops = <<>>
    /\ store = <<>>
    /\ now = 0
    /\ ticks = 0
    /\ lastOp = NoCall
    /\ lastSet = <<>>
    /\ NoRankState
    /\ NoScoreState
    /\ NoHelperState
    /\ NoClientState

\* line 89, deduplicateAndScore(cached.observations, locationHour), tabulated
\* once on the observation lists and reference hours that occur in a run
RankedFeeds ==
    [o \in {transformObservations(f) : f \in Feeds},
     h \in {LocationHourOf(x) : x \in HourInputs} |-> deduplicateAndScore(o, h)]

\* mutated: ranked without the request's hour
Respond_NoHour(r, about, cached, st, hit) ==
    \E scored \in RankedFeeds[cached.observations, Null] :
        /\ resp' = [status |-> 200, about |-> about, key |-> r.key,
                    locationHour |-> r.locationHour,
                    hit |-> hit, fetched |-> r.fetched, bodies |-> r.bodies,
                    source |-> cached,
                    notable_species |-> selectNotableSpecies(scored, NotableCount),
                    all_species |-> scored,
                    total_species_count |-> Len(scored),
                    observation_radius_km |-> cached.radius,
                    cached |-> CacheGet(st, r.key, now) # NoValue]
        /\ store' = CacheAfterGet(st, r.key, now)

\* mutated: the cached list sorted in place, so the ranked list is what the
\* cache holds afterwards
Respond_SortsInPlace(r, about, cached, st, hit) ==
    \E scored \in RankedFeeds[cached.observations, r.locationHour] :
        /\ resp' = [status |-> 200, about |-> about, key |-> r.key,
                    locationHour |-> r.locationHour,
                    hit |-> hit, fetched |-> r.fetched, bodies |-> r.bodies,
                    source |-> cached,
                    notable_species |-> selectNotableSpecies(scored, NotableCount),
                    all_species |-> scored,
                    total_species_count |-> Len(scored),
                    observation_radius_km |-> cached.radius,
                    cached |-> CacheGet(st, r.key, now) # NoValue]
        /\ store' = [CacheAfterGet(st, r.key, now) EXCEPT
                         ![r.key].value.observations = scored]

\* lines 88-108: rank the cached observations and answer 200
Respond(r, about, cached, st, hit) ==
    \E scored \in RankedFeeds[cached.observations, r.locationHour] :
        /\ resp' = [status |-> 200, about |-> about, key |-> r.key,
                    locationHour |-> r.locationHour,
                    hit |-> hit, fetched |-> r.fetched, bodies |-> r.bodies,
                    source |-> cached,
                    notable_species |-> selectNotableSpecies(scored, NotableCount),
                    all_species |-> scored,
                    total_species_count |-> Len(scored),
                    observation_radius_km |-> cached.radius,
                    cached |-> CacheGet(st, r.key, now) # NoValue]
        /\ store' = CacheAfterGet(st, r.key, now)

\* lines 23-72: a request arrives and runs to its response or its first await
Arrive(q) ==
    /\ started < MaxRequests
    /\ started' = started + 1
    /\ UNCHANGED <<apiKey, now, ticks, lastOp, lastSet, pops, rankVars, scoreVars, helperVars, clientVars>>
    /\ LET early == EarlyStatus(apiKey, q)
       IN  IF early # 0
           THEN /\ resp' = ErrorResp(early, q, <<>>)
                /\ UNCHANGED <<store, reqs>>
           ELSE LET key == CacheKeyOf(q)
                    cached == CacheGet(store, key, now)
                    st == CacheAfterGet(store, key, now)
                    r == [key |-> key,
                          locationHour |-> LocationHourOf(q.hour),
                          pc |-> "tight", fetched |-> <<>>, bodies |-> <<>>]
                IN  IF cached = NoValue
                    THEN /\ store' = st
                         /\ reqs' = reqs (+) SetToBag({[r EXCEPT !.fetched = <<TightRadius>>]})
                         /\ resp' = Suspended(q)
                    ELSE /\ Respond(r, q, cached[1], st, TRUE)
                         /\ UNCHANGED reqs

PopsOf(key) == IF key \in DOMAIN pops THEN pops[key] ELSE <<>>

\* lines 84-85 then the response
StoreAndRespond_DefaultTtl(r, observations, radius) ==
    LET cached == [observations |-> observations, radius |-> radius]
        st == CacheSet(store, r.key, cached, Undefined, now)
    IN  /\ Respond(r, NoQuery, cached, st, FALSE)
        /\ pops' = (r.key :> Append(PopsOf(r.key), [value |-> cached, at |-> now])) @@ pops

\* mutated: the radius recorded is the first one tried
StoreAndRespond_TightRadius(r, observations, radius) ==
    LET cached == [observations |-> observations, radius |-> TightRadius]
        st == CacheSet(store, r.key, cached, RawTtl, now)
    IN  /\ Respond(r, NoQuery, cached, st, FALSE)
        /\ pops' = (r.key :> Append(PopsOf(r.key), [value |-> cached, at |-> now])) @@ pops

StoreAndRespond(r, observations, radius) ==
    LET cached == [observations |-> observations, radius |-> radius]
        st == CacheSet(store, r.key, cached, RawTtl, now)
    IN  /\ Respond(r, NoQuery, cached, st, FALSE)
        /\ pops' = (r.key :> Append(PopsOf(r.key), [value |-> cached, at |-> now])) @@ pops

\* getRecentObservations throws on a non-success answer: next(error), status 500
FetchFailed_DropsEntry(r) ==
    /\ resp' = ErrorResp(500, r.key, r.fetched)
    /\ store' = Remove(store, r.key)
    /\ UNCHANGED pops

FetchFailed(r) ==
    /\ resp' = ErrorResp(500, r.key, r.fetched)
    /\ UNCHANGED <<store, pops>>

\* lines 72-86: the 3 km fetch of request r returns
TightReturns(r, result) ==
    /\ BagIn(r, reqs)
    /\ r.pc = "tight"
    /\ UNCHANGED <<apiKey, started, now, ticks, lastOp, lastSet, rankVars, scoreVars, helperVars, clientVars>>
    /\ IF ~result.ok
       THEN /\ FetchFailed(r)
            /\ reqs' = reqs (-) SetToBag({r})
       ELSE LET observations == transformObservations(result.body)
                uniqueCount == UniqueCount(observations)
                r2 == [r EXCEPT !.bodies = Append(@, result.body)]
            IN  IF uniqueCount < SparseThreshold
                THEN /\ reqs' = (reqs (-) SetToBag({r})) (+)
                                   SetToBag({[r2 EXCEPT !.pc = "wide",
                                                        !.fetched = Append(@, WideRadius)]})
                     /\ resp' = NoResp
                     /\ UNCHANGED <<store, pops>>
                ELSE /\ StoreAndRespond(r2, observations, TightRadius)
                     /\ reqs' = reqs (-) SetToBag({r})

\* lines 79-86: the 10 km fetch of request r returns
WideReturns(r, result) ==
    /\ BagIn(r, reqs)
    /\ r.pc = "wide"
    /\ UNCHANGED <<apiKey, started, now, ticks, lastOp, lastSet, rankVars, scoreVars, helperVars, clientVars>>
    /\ reqs' = reqs (-) SetToBag({r})
    /\ IF ~result.ok THEN FetchFailed(r)
       ELSE StoreAndRespond([r EXCEPT !.bodies = Append(@, result.body)],
                            transformObservations(result.body), WideRadius)

\* the clock moves between steps
Tick(d) ==
    /\ ticks < MaxTicks
    /\ now' = now + d
    /\ ticks' = ticks + 1
    /\ resp' = NoResp
    /\ UNCHANGED <<store, lastOp, lastSet, rankVars, scoreVars, helperVars, clientVars, apiKey, reqs, started, pops>>

Next ==
    \/ \E q \in Queries : Arrive(q)
    \/ \E r \in BagToSet(reqs), result \in UpstreamResults : TightReturns(r, result)
    \/ \E r \in BagToSet(reqs), result \in UpstreamResults : WideReturns(r, result)
    \/ \E d \in RouteTickSteps : Tick(d)

Spec == Init /\ [][Next]_vars

----------------------------------------------------------------------------
(* The activity model, server (backend/bird-activity.js) and client mirror. *)
(* A weather field is a number or Undefined; a comparison with undefined is *)
(* false in JavaScript.                                                     *)

Present(x) == x # Undefined /\ x # NaN
Gt(x, c) == Present(x) /\ x > c
Ge(x, c) == Present(x) /\ x >= c
Lt(x, c) == Present(x) /\ x < c
Le(x, c) == Present(x) /\ x <= c

Max(a, b) == IF a > b THEN a ELSE b

BaseScore == 50

\* TIME OF DAY: what the if chain adds to the score, and the label it sets
HourBand_LateDawn(hour) ==
    IF hour >= 5 /\ hour <= 8 THEN [delta |-> 30, label |-> "Best time to spot birds"]
    ELSE IF hour >= 9 /\ hour <= 11 THEN [delta |-> 10, label |-> "Good chance of sightings"]
    ELSE IF hour >= 12 /\ hour <= 14 THEN [delta |-> -5, label |-> "Fewer birds around"]
    ELSE IF hour >= 15 /\ hour <= 16 THEN [delta |-> 10, label |-> "Birds picking up again"]
    ELSE IF hour >= 17 /\ hour <= 18 THEN [delta |-> 20, label |-> "Lots of activity"]
    ELSE IF hour = 19 THEN [delta |-> 5, label |-> "Last chance today"]
    ELSE [delta |-> -20, label |-> "Not much about"]

HourBand(hour) ==
    IF hour >= 5 /\ hour <= 7 THEN [delta |-> 30, label |-> "Best time to spot birds"]
    ELSE IF hour = 8 THEN [delta |-> 20, label |-> "Great for spotting"]
    ELSE IF hour >= 9 /\ hour <= 11 THEN [delta |-> 10, label |-> "Good chance of sightings"]
    ELSE IF hour >= 12 /\ hour <= 14 THEN [delta |-> -5, label |-> "Fewer birds around"]
    ELSE IF hour >= 15 /\ hour <= 16 THEN [delta |-> 10, label |-> "Birds picking up again"]
    ELSE IF hour >= 17 /\ hour <= 18 THEN [delta |-> 20, label |-> "Lots of activity"]
    ELSE IF hour = 19 THEN [delta |-> 5, label |-> "Last chance today"]
    ELSE [delta |-> -20, label |-> "Not much about"]

\* WEATHER PENALTIES, rain: s is the running {score, label}
AfterRain_LabelAlways(s, weather) ==
    IF Gt(weather.rain_probability, 60)
    THEN [score |-> s.score - 20, label |-> "Rain keeping birds hidden"]
    ELSE IF Gt(weather.rain_probability, 30) THEN [s EXCEPT !.score = s.score - 10]
    ELSE s

AfterRain(s, weather) ==
    IF Gt(weather.rain_probability, 60)
    THEN [score |-> s.score - 20,
          label |-> IF s.score - 20 < 40 THEN "Rain keeping birds hidden" ELSE s.label]
    ELSE IF Gt(weather.rain_probability, 30) THEN [s EXCEPT !.score = s.score - 10]
    ELSE s

\* wind, mutated: the label tested against the score before the wind penalty
AfterWind_LabelBeforePenalty(s, weather) ==
    IF Gt(weather.wind_speed_ms, 10)
    THEN [score |-> s.score - 15,
          label |-> IF s.score < 40 THEN "Too windy for most birds" ELSE s.label]
    ELSE IF Gt(weather.wind_speed_ms, 6) THEN [s EXCEPT !.score = s.score - 5]
    ELSE s

AfterWind(s, weather) ==
    IF Gt(weather.wind_speed_ms, 10)
    THEN [score |-> s.score - 15,
          label |-> IF s.score - 15 < 40 THEN "Too windy for most birds" ELSE s.label]
    ELSE IF Gt(weather.wind_speed_ms, 6) THEN [s EXCEPT !.score = s.score - 5]
    ELSE s

\* SEASON
SeasonDelta(month) ==
    IF month \in {2, 3, 4} THEN 15
    ELSE IF month \in {8, 9} THEN 10
    ELSE IF month \in {11, 0, 1} THEN -5
    ELSE 0

\* TEMPERATURE: three independent ifs
TempDelta(weather) ==
    (IF Ge(weather.temp_c, 10) /\ Le(weather.temp_c, 22) THEN 5 ELSE 0)
    + (IF Lt(weather.temp_c, 0) THEN -10 ELSE 0)
    + (IF Gt(weather.temp_c, 30) THEN -10 ELSE 0)

\* light overcast and dry
CloudDelta(weather) ==
    IF /\ Gt(weather.cloud_percent, 30)
       /\ Lt(weather.cloud_percent, 70)
       /\ Lt(weather.rain_probability, 20)
    THEN 5 ELSE 0

\* Math.max(0, Math.min(100, score))
Clamp_UpperOnly(score) == Min(100, score)

Clamp(score) == Max(0, Min(100, score))

scoreHour(hour, weather, month) ==
    LET band == HourBand(hour)
        s0 == [score |-> BaseScore + band.delta, label |-> band.label]
        s2 == AfterWind(AfterRain(s0, weather), weather)
    IN  [score |-> Clamp(s2.score + SeasonDelta(month) + TempDelta(weather)
                            + CloudDelta(weather)),
         label |-> s2.label]

\* the client mirror of scoreHour (bird-data module, lines 113-171)
ClientHourBand(hour) ==
    IF hour >= 5 /\ hour <= 7 THEN [delta |-> 30, label |-> "Best time to spot birds"]
    ELSE IF hour = 8 THEN [delta |-> 20, label |-> "Great for spotting"]
    ELSE IF hour >= 9 /\ hour <= 11 THEN [delta |-> 10, label |-> "Good chance of sightings"]
    ELSE IF hour >= 12 /\ hour <= 14 THEN [delta |-> -5, label |-> "Fewer birds around"]
    ELSE IF hour >= 15 /\ hour <= 16 THEN [delta |-> 10, label |-> "Birds picking up again"]
    ELSE IF hour >= 17 /\ hour <= 18 THEN [delta |-> 20, label |-> "Lots of activity"]
    ELSE IF hour = 19 THEN [delta |-> 5, label |-> "Last chance today"]
    ELSE [delta |-> -20, label |-> "Not much about"]

ClientAfterRain(s, weather) ==
    IF Gt(weather.rain_probability, 60)
    THEN [score |-> s.score - 20,
          label |-> IF s.score - 20 < 40 THEN "Rain keeping birds hidden" ELSE s.label]
    ELSE IF Gt(weather.rain_probability, 30) THEN [s EXCEPT !.score = s.score - 10]
    ELSE s

ClientAfterWind(s, weather) ==
    IF Gt(weather.wind_speed_ms, 10)
    THEN [score |-> s.score - 15,
          label |-> IF s.score - 15 < 40 THEN "Too windy for most birds" ELSE s.label]
    ELSE IF Gt(weather.wind_speed_ms, 6) THEN [s EXCEPT !.score = s.score - 5]
    ELSE s

ClientSeasonDelta_Calendar(month) ==
    IF month \in {3, 4, 5} THEN 15
    ELSE IF month \in {9, 10} THEN 10
    ELSE IF month \in {12, 1, 2} THEN -5
    ELSE 0

ClientSeasonDelta(month) ==
    IF month \in {2, 3, 4} THEN 15
    ELSE IF month \in {8, 9} THEN 10
    ELSE IF month \in {11, 0, 1} THEN -5
    ELSE 0

ClientTempDelta(weather) ==
    (IF Ge(weather.temp_c, 10) /\ Le(weather.temp_c, 22) THEN 5 ELSE 0)
    + (IF Lt(weather.temp_c, 0) THEN -10 ELSE 0)
    + (IF Gt(weather.temp_c, 30) THEN -10 ELSE 0)

ClientCloudDelta(weather) ==
    IF /\ Gt(weather.cloud_percent, 30)
       /\ Lt(weather.cloud_percent, 70)
       /\ Lt(weather.rain_probability, 20)
    THEN 5 ELSE 0

ClientClamp(score) == Max(0, Min(100, score))

clientScoreHour(hour, weather, month) ==
    LET band == ClientHourBand(hour)
        s0 == [score |-> BaseScore + band.delta, label |-> band.label]
        s2 == ClientAfterWind(ClientAfterRain(s0, weather), weather)
    IN  [score |-> ClientClamp(s2.score + ClientSeasonDelta(month) + ClientTempDelta(weather)
                            + ClientCloudDelta(weather)),
         label |-> s2.label]

\* x ?? d
OrDefault(x, d) == IF x = Undefined \/ x = Null THEN d ELSE x

WithDefaults(weather) ==
    [temp_c           |-> OrDefault(weather.temp_c, 10),
     rain_probability |-> OrDefault(weather.rain_probability, 0),
     wind_speed_ms    |-> OrDefault(weather.wind_speed_ms, 0),
     cloud_percent    |-> OrDefault(weather.cloud_percent, 50)]

LevelOf(score) == IF score >= 70 THEN "high" ELSE IF score >= 40 THEN "moderate" ELSE "low"

\* the peak the loop holds after hours h..23, from peak held before hour h
TrackPeak_Latest(curve, lo, hi, h, peak) ==
    LET best == CHOOSE k \in lo..hi : \A j \in lo..hi :
                    curve[k].score > curve[j].score \/ (curve[k].score = curve[j].score /\ k >= j)
    IN  IF curve[best].score > peak.score
        THEN [hour |-> best, score |-> curve[best].score] ELSE peak

RECURSIVE TrackPeak(_, _, _, _, _)
TrackPeak(curve, lo, hi, h, peak) ==
    IF h > 23 THEN peak
    ELSE TrackPeak(curve, lo, hi, h + 1,
                   IF h >= lo /\ h <= hi /\ curve[h].score > peak.score
                   THEN [hour |-> h, score |-> curve[h].score]
                   ELSE peak)

\* the server reads month and hour from its clock
calculateActivityCurve(weather, clockHour, clockMonth) ==
    LET w == WithDefaults(weather)
        curve == [h \in 0..23 |->
                    LET r == scoreHour(h, w, clockMonth)
                    IN  [hour |-> h, score |-> r.score, label |-> r.label]]
        current == curve[clockHour]
    IN  [curve |-> curve,
         current |-> [hour |-> current.hour, score |-> current.score,
                      label |-> current.label, level |-> LevelOf(current.score)],
         dawn_peak |-> TrackPeak(curve, 5, 9, 0, [hour |-> 6, score |-> 0]),
         dusk_peak |-> TrackPeak(curve, 15, 19, 0, [hour |-> 17, score |-> 0])]

RECURSIVE ClientTrackPeak(_, _, _, _, _)
ClientTrackPeak(curve, lo, hi, h, peak) ==
    IF h > 23 THEN peak
    ELSE ClientTrackPeak(curve, lo, hi, h + 1,
                         IF h >= lo /\ h <= hi /\ curve[h].score > peak.score
                         THEN [hour |-> h, score |-> curve[h].score]
                         ELSE peak)

\* the client takes hour and month from its caller, from its own clock otherwise
clientCalculateActivityCurve(weather, loc, clockHour, clockMonth) ==
    LET month == OrDefault(loc.month, clockMonth)
        currentHour == OrDefault(loc.hour, clockHour)
        w == WithDefaults(weather)
        curve == [h \in 0..23 |->
                    LET r == clientScoreHour(h, w, month)
                    IN  [hour |-> h, score |-> r.score, label |-> r.label]]
        current == curve[currentHour]
    IN  [curve |-> curve,
         current |-> [hour |-> current.hour, score |-> current.score,
                      label |-> current.label, level |-> LevelOf(current.score)],
         dawn_peak |-> ClientTrackPeak(curve, 5, 9, 0, [hour |-> 6, score |-> 0]),
         dusk_peak |-> ClientTrackPeak(curve, 15, 19, 0, [hour |-> 17, score |-> 0])]

----------------------------------------------------------------------------
(* SpecScore: the activity model on every sampled input.  The samples sit  *)
(* on both sides of every threshold the code compares a field with.        *)

ScoreHours == 0..23
Months == 0..11
Temps  == {Undefined, -1, 0, 9, 10, 22, 23, 30, 31}
Rains  == {Undefined, 0, 19, 20, 30, 31, 60, 70}
Winds  == {Undefined, 2, 6, 7, 10, 12}
Clouds == {Undefined, 30, 31, 50, 69, 70}
Weathers ==
    [temp_c : Temps, rain_probability : Rains, wind_speed_ms : Winds, cloud_percent : Clouds]

\* inputs of the 24-hour curve: the weather the caller has, the server's
\* clock, and what the client's caller passes for hour and month
CurveWeathers ==
    [temp_c : {Undefined, -1, 10, 31}, rain_probability : {Undefined, 0, 31, 70},
     wind_speed_ms : {Undefined, 2, 12}, cloud_percent : {Undefined, 50}]
CurveHours == {0, 6, 13, 23}
NoLoc == [hour |-> Undefined, month |-> Undefined]
ClientClock == [hour |-> 13, month |-> 6]

InitScore ==
    /\ \/ /\ spc = "hour"
          /\ sIn \in [hour : ScoreHours, month : Months, weather : Weathers]
       \/ /\ spc = "curve"
          /\ \E w \in CurveWeathers, h \in CurveHours, m \in Months :
                \E loc \in {NoLoc, [hour |-> h, month |-> m]} :
                    sIn = [weather |-> w, hour |-> h, month |-> m, loc |-> loc]
    /\ sOut = <<>>
    /\ NoRankState
    /\ NoCacheState
    /\ NoRouteState
    /\ NoHelperState
    /\ NoClientState

\* scoreHour called twice on the server and once on the client
ScoreHour ==
    /\ spc = "hour"
    /\ sOut' = [first  |-> scoreHour(sIn.hour, sIn.weather, sIn.month),
                second |-> scoreHour(sIn.hour, sIn.weather, sIn.month),
                client |-> clientScoreHour(sIn.hour, sIn.weather, sIn.month)]
    /\ spc' = "scored"
    /\ UNCHANGED <<sIn, rankVars, cacheVars, routeVars, helperVars, clientVars>>

\* calculateActivityCurve on the server and on the client
Curve ==
    /\ spc = "curve"
    /\ sOut' = [server |-> calculateActivityCurve(sIn.weather, sIn.hour, sIn.month),
                client |-> clientCalculateActivityCurve(sIn.weather, sIn.loc,
                               ClientClock.hour, ClientClock.month)]
    /\ spc' = "curved"
    /\ UNCHANGED <<sIn, rankVars, cacheVars, routeVars, helperVars, clientVars>>

NextScore == ScoreHour \/ Curve

SpecScore == InitScore /\ [][NextScore]_vars

----------------------------------------------------------------------------
(* SpecHelpers: hourDistance on every pair of hours, and what the handler  *)
(* of GET /api/birds derives from the query string of a request: the early *)
(* status, the reference hour and the weather the activity curve is built  *)
(* from.  A query parameter is Undefined when absent, Junk when its text   *)
(* does not start with a number, else the number it is the text of.        *)

\* birds.js lines 92-97: parseFloat(req.query.x) || d
ParseFloatOr(x, d) ==
    LET n == IF x = Undefined THEN NaN ELSE ParseNumber(x)
    IN  IF n = NaN \/ n = 0 THEN d ELSE n

QueryWeather(q) ==
    [temp_c           |-> ParseFloatOr(q.temp_c, 10),
     rain_probability |-> ParseFloatOr(q.rain, 0),
     wind_speed_ms    |-> ParseFloatOr(q.wind, 0),
     cloud_percent    |-> ParseFloatOr(q.cloud, 50)]

HourTexts == {Undefined, Junk, -5, -1, 0, 1, 3, 12, 22, 23, 24, 99}
HelperQueries ==
    [lat : {515066, Undefined, 900001}, lon : {Lon}, hour : HourTexts,
     temp_c : {Undefined, Junk, -1, 0, 10, 31}, rain : {Undefined, 0, 70},
     wind : {Undefined, 0, 12}, cloud : {Undefined, Junk, 0, 50}]
ServerClocks == {[hour |-> 6, month |-> 3], [hour |-> 13, month |-> 0]}

InitHelpers ==
    /\ \/ /\ hpc = "hours"
          /\ hIn \in [a : 0..23, b : 0..23]
       \/ /\ hpc = "query"
          /\ \E q \in HelperQueries, k \in {"", "k3y"}, c \in ServerClocks :
                hIn = [query |-> q, apiKey |-> k, clock |-> c]
    /\ hOut = <<>>
    /\ NoRankState
    /\ NoCacheState
    /\ NoRouteState
    /\ NoScoreState
    /\ NoClientState

\* hourDistance(a, b) and hourDistance(b, a)
HourDistance ==
    /\ hpc = "hours"
    /\ hOut' = [d |-> hourDistance(hIn.a, hIn.b), rev |-> hourDistance(hIn.b, hIn.a)]
    /\ hpc' = "measured"
    /\ UNCHANGED <<hIn, rankVars, cacheVars, routeVars, scoreVars, clientVars>>

\* birds.js lines 25-63 and 92-97 on one request
ParseQuery ==
    /\ hpc = "query"
    /\ LET q == hIn.query
           early == EarlyStatus(hIn.apiKey, q)
       IN  hOut' = IF early # 0 THEN [status |-> early]
                   ELSE [status |-> 0,
                         locationHour |-> LocationHourOf(q.hour),
                         weather |-> QueryWeather(q),
                         activity |-> calculateActivityCurve(QueryWeather(q),
                                          hIn.clock.hour, hIn.clock.month)]
    /\ hpc' = "parsed"
    /\ UNCHANGED <<hIn, rankVars, cacheVars, routeVars, scoreVars, clientVars>>

NextHelpers == HourDistance \/ ParseQuery

SpecHelpers == InitHelpers /\ [][NextHelpers]_vars

----------------------------------------------------------------------------
(* The client's bird-data module (loadBirdData and its localStorage cache)  *)
(* and getBirdData of the API client.  A call of loadBirdData runs to its   *)
(* return or to the await of getBirdData in one step, and from the answer   *)
(* of the server to its return in one step.  localStorage is taken to       *)
(* accept every write; what it holds is kept parsed, the payload being JSON *)
(* text when it arrives.                                                    *)

MaxLoads == 2    \* loadBirdData calls in one run

BIRD_CACHE_MAX_AGE == 3 * 60 * 60 * 1000

ClientTickSteps == {BIRD_CACHE_MAX_AGE - 1, BIRD_CACHE_MAX_AGE}

\* arguments of loadBirdData: coordinates in units of 0.0001 degree
ClientPlaces == {[lat |-> 515066, lon |-> -1278], [lat |-> 407128, lon |-> -740060]}
ClientWeathers ==
    {[temp_c |-> 10, rain_probability |-> 0, wind_speed_ms |-> 2, cloud_percent |-> 50],
     [temp_c |-> 31, rain_probability |-> 70, wind_speed_ms |-> 12, cloud_percent |-> 50]}
LocationTimes == {[hour |-> 6, month |-> 3]}

\* getBirdData lines 155-159: the query string (no hour is ever sent)
BirdQuery(lat, lon, weather) ==
    [lat |-> lat, lon |-> lon, hour |-> Undefined,
     temp_c |-> weather.temp_c, rain |-> weather.rain_probability,
     wind |-> weather.wind_speed_ms, cloud |-> weather.cloud_percent]

\* what the server can answer: 200 with the payload of birds.js lines 99-108
\* for the query, 503, another error status, or no answer at all
SpeciesNear(q) == IF q.lat > 450000 THEN <<"eursta", "houspa">> ELSE <<"amerob", "blujay">>
ServerClock == [hour |-> 13, month |-> 0]
\* the curve the server builds from the weather in the query, tabulated once
ServerCurves ==
    [w \in ClientWeathers |->
        calculateActivityCurve(QueryWeather(BirdQuery(0, 0, w)),
                               ServerClock.hour, ServerClock.month)]
ServerPayload(call, t) ==
    LET q == BirdQuery(call.lat, call.lon, call.weather)
    IN  [generated_at |-> t,
         location |-> [lat |-> Round3(ParseNumber(q.lat)), lon |-> Round3(ParseNumber(q.lon))],
         all_species |-> SpeciesNear(q),
         activity |-> ServerCurves[call.weather]]
AnswerKinds == {200, 503, 500, 0}
ServerAnswer(call, t, status) ==
    IF status = 200 THEN [status |-> 200, body |-> ServerPayload(call, t)]
    ELSE IF status = 503 THEN [status |-> 503, body |-> [error |-> "Bird data unavailable"]]
    ELSE IF status = 500 THEN [status |-> 500, body |-> [error |-> "eBird API error: 500"]]
    ELSE [status |-> 0, body |-> <<>>]

\* getBirdData lines 165-187: the value returned or the message of the Error thrown
getBirdData(answer) ==
    IF answer.status = 0
    THEN [ok |-> FALSE, message |-> "Network error: Unable to reach server"]
    ELSE IF answer.status = 200 THEN [ok |-> TRUE, data |-> answer.body]
    ELSE IF answer.status = 503 THEN [ok |-> FALSE, message |-> "Bird data unavailable"]
    ELSE [ok |-> FALSE,
          message |-> IF "message" \in DOMAIN answer.body THEN answer.body.message
                      ELSE "HTTP 500"]

\* lines 48-49: the cached payload is younger than the maximum age
IsFresh_Inclusive(cached, t) == t - cached.generated_at <= BIRD_CACHE_MAX_AGE

IsFresh(cached, t) == t - cached.generated_at < BIRD_CACHE_MAX_AGE

\* lines 51 and 69: cached.activity = calculateActivityCurve(currentWeather, locationTime)
ClientCurves ==
    [w \in ClientWeathers, lt \in LocationTimes |->
        clientCalculateActivityCurve(w, lt, ClientClock.hour, ClientClock.month)]
Recalculated(cached, weather, locationTime) ==
    [cached EXCEPT !.activity = ClientCurves[weather, locationTime]]

\* lines 61-74, the catch block: the value returned (NoValue for null) and
\* featureAvailable
Caught_StaleOn503(call, message, available) ==
    IF call.cached # NoValue
    THEN [data |-> Some(Recalculated(call.cached[1], call.weather, call.locationTime)),
          featureAvailable |->
              IF message = "Bird data unavailable" THEN Some(FALSE) ELSE available]
    ELSE [data |-> NoValue,
          featureAvailable |->
              IF message = "Bird data unavailable" THEN Some(FALSE) ELSE available]

Caught(call, message, available) ==
    IF message = "Bird data unavailable"
    THEN [data |-> NoValue, featureAvailable |-> Some(FALSE)]
    ELSE IF call.cached # NoValue
    THEN [data |-> Some(Recalculated(call.cached[1], call.weather, call.locationTime)),
          featureAvailable |-> available]
    ELSE [data |-> NoValue, featureAvailable |-> available]

\* what a step returned to its caller: the call, the requests it issued, the
\* HTTP status it got (-1 without a request, 0 without an answer) and the value
NoReturn == [kind |-> "none"]
Returned(call, requests, status, data) ==
    [kind |-> "returned", call |-> call, requests |-> requests,
     status |-> status, data |-> data]

InitClient ==
    /\ birdData = NoValue
    /\ featureAvailable = NoValue
    /\ loads = EmptyBag
    /\ loadsStarted = 0
    /\ returned = NoReturn
    /\ store = <<>>
    /\ now = 0
    /\ ticks = 0
    /\ lastOp = NoCall
    /\ lastSet = <<>>
    /\ NoRankState
    /\ NoRouteState
    /\ NoScoreState
    /\ NoHelperState

\* lines 44-57: loadBirdData up to its return from the cache or its await
LoadBirdData(place, weather, locationTime) ==
    /\ loadsStarted < MaxLoads
    /\ loadsStarted' = loadsStarted + 1
    /\ LET cached == birdData
           call == [lat |-> place.lat, lon |-> place.lon, weather |-> weather,
                    locationTime |-> locationTime, cached |-> cached]
       IN  IF cached # NoValue /\ IsFresh(cached[1], now)
           THEN /\ returned' = Returned(call, 0, -1,
                                        Some(Recalculated(cached[1], weather, locationTime)))
                /\ featureAvailable' = Some(TRUE)
                /\ UNCHANGED loads
           ELSE /\ loads' = loads (+) SetToBag({call})
                /\ returned' = NoReturn
                /\ UNCHANGED featureAvailable
    /\ UNCHANGED <<birdData, cacheVars, rankVars, routeVars, scoreVars, helperVars>>

\* lines 57-75: the server's answer arrives and loadBirdData returns
FetchReturns(call, status) ==
    /\ BagIn(call, loads)
    /\ loads' = loads (-) SetToBag({call})
    /\ LET got == getBirdData(ServerAnswer(call, now, status))
       IN  IF got.ok
           THEN /\ birdData' = Some(got.data)
                /\ featureAvailable' = Some(TRUE)
                /\ returned' = Returned(call, 1, status, Some(got.data))
           ELSE LET c == Caught(call, got.message, featureAvailable)
                IN  /\ featureAvailable' = c.featureAvailable
                    /\ returned' = Returned(call, 1, status, c.data)
                    /\ UNCHANGED birdData
    /\ UNCHANGED <<loadsStarted, cacheVars, rankVars, routeVars, scoreVars, helperVars>>

\* clearBirdCache, lines 94-96
ClearBirdCache ==
    /\ birdData # NoValue
    /\ birdData' = NoValue
    /\ returned' = NoReturn
    /\ UNCHANGED <<featureAvailable, loads, loadsStarted,
                   cacheVars, rankVars, routeVars, scoreVars, helperVars>>

\* the client's clock moves between steps
ClientTick(d) ==
    /\ ticks < MaxTicks
    /\ now' = now + d
    /\ ticks' = ticks + 1
    /\ returned' = NoReturn
    /\ UNCHANGED <<store, lastOp, lastSet, birdData, featureAvailable, loads, loadsStarted,
                   rankVars, routeVars, scoreVars, helperVars>>

NextClient ==
    \/ \E place \in ClientPlaces, weather \in ClientWeathers, lt \in LocationTimes :
           LoadBirdData(place, weather, lt)
    \/ \E call \in BagToSet(loads), status \in AnswerKinds : FetchReturns(call, status)
    \/ ClearBirdCache
    \/ \E d \in ClientTickSteps : ClientTick(d)

SpecClient == InitClient /\ [][NextClient]_vars

----------------------------------------------------------------------------
(* Properties of deduplicateAndScore (SpecRank).                           *)

CodesOf(list) == {list[i].species_code : i \in 1..Len(list)}
RangeOf(list) == {list[i] : i \in 1..Len(list)}
IndicesOfCode(list, code) == {i \in 1..Len(list) : list[i].species_code = code}
FirstOfCode(list, code) ==
    list[CHOOSE i \in IndicesOfCode(list, code) :
             \A j \in IndicesOfCode(list, code) : i <= j]

\* the circular hour distance of the specification, d(a,b) = min(|a-b|, 24-|a-b|),
\* an observation without a usable hour counting as 24
CircularDistance(a, b) == Min(Abs(a - b), 24 - Abs(a - b))
RankDistance(obs, h) ==
    IF IsNum(obs.obs_hour) THEN CircularDistance(obs.obs_hour, h) ELSE 24

\* C1: the output of deduplicateAndScore holds exactly one entry per distinct
\* species_code of the input, and every output entry is an element of the input.
C1_OnePerSpecies ==
    rpc = "ranked" =>
        /\ CodesOf(ranked) = CodesOf(species)
        /\ Len(ranked) = Cardinality(CodesOf(species))
        /\ RangeOf(ranked) \subseteq RangeOf(species)

C1_Witness ==
    /\ rpc = "ranked"
    /\ locationHour # Null
    /\ Len(species) = 3
    /\ Len(ranked) = 2
    /\ \E i \in 1..Len(species) : species[i] \notin RangeOf(ranked)

C3_ClosestHourWins ==
    (rpc = "ranked" /\ locationHour # Null) =>
        \A i \in 1..Len(ranked) :
            LET idx == IndicesOfCode(species, ranked[i].species_code)
                best == CHOOSE k \in idx :
                           \A j \in idx :
                              \/ RankDistance(species[k], locationHour)
                                    < RankDistance(species[j], locationHour)
                              \/ /\ RankDistance(species[k], locationHour)
                                       = RankDistance(species[j], locationHour)
                                 /\ k <= j
            IN  ranked[i] = species[best]

\* C4: with a non-null locationHour the output is ordered by non-decreasing
\* circular hour distance to locationHour, every entry without a known hour
\* after every entry with one.
C4_SortedByHourDistance ==
    (rpc = "ranked" /\ locationHour # Null) =>
        \A i, j \in 1..Len(ranked) :
            i < j =>
                /\ RankDistance(ranked[i], locationHour)
                      <= RankDistance(ranked[j], locationHour)
                /\ IsNum(ranked[j].obs_hour) => IsNum(ranked[i].obs_hour)

\* C5: with locationHour = null the output is ordered by non-increasing
\* observed_at timestamp, most recent first (read on the entries whose
\* observed_at is a timestamp at all).
C5_SortedByRecency ==
    (rpc = "ranked" /\ locationHour = Null) =>
        \A i, j \in 1..Len(ranked) :
            (/\ i < j
             /\ IsNum(DateParse(ranked[i].observed_at))
             /\ IsNum(DateParse(ranked[j].observed_at)))
                => DateParse(ranked[i].observed_at) >= DateParse(ranked[j].observed_at)

\* the same orderings on lists in which every hour and timestamp parsed
AllHoursUsable == \A i \in 1..Len(species) : species[i].obs_hour # NaN
AllDatesValid == \A i \in 1..Len(species) : DateParse(species[i].observed_at) # NaN
ClosestHourWinsWhenUsable == AllHoursUsable => C3_ClosestHourWins
SortedByHourDistanceWhenUsable == AllHoursUsable => C4_SortedByHourDistance
SortedByRecencyWhenValid == AllDatesValid => C5_SortedByRecency

\* no hour can be read from the timestamp: it is missing, has no time part,
\* or its hour field is not a number
NoHourIn(obsDt) == Len(obsDt) < 2 \/ obsDt[2] = Junk

\* C16: transformObservations yields obs_hour = null for every timestamp from
\* which no hour can be parsed (missing, no date/time separator, non-numeric
\* hour field), and an obs_hour that is not null is an integer in 0..23.
C16_HourNullOrInRange ==
    rpc \in {"transformed", "ranked"} =>
        /\ Len(species) = Len(rawObs)
        /\ \A i \in 1..Len(rawObs) :
              /\ NoHourIn(rawObs[i].obsDt) => species[i].obs_hour = Null
              /\ species[i].obs_hour # Null => species[i].obs_hour \in 0..23

\* what does hold: a missing timestamp or a missing time part gives null, an
\* hour field that is a number gives that number, and any other gives NaN
HourNullNumberOrNaN ==
    rpc \in {"transformed", "ranked"} =>
        \A i \in 1..Len(rawObs) :
            species[i].obs_hour =
                IF Len(rawObs[i].obsDt) < 2 THEN Null
                ELSE IF rawObs[i].obsDt[2] = Junk THEN NaN
                ELSE rawObs[i].obsDt[2]

----------------------------------------------------------------------------
(* Properties of GET /api/birds (Spec).                                    *)

SixHours == 6 * 60 * 60 * 1000     \* milliseconds

DistinctCodes(body) == Cardinality({body[i].speciesCode : i \in 1..Len(body)})

ArrivedAndFetched(r) ==
    /\ started' = started + 1
    /\ CopiesIn(r, reqs') > CopiesIn(r, reqs)

\* some value stored under key no more than 6 hours ago
StoredWithinSixHours(key) ==
    \E i \in 1..Len(PopsOf(key)) : now <= PopsOf(key)[i].at + SixHours

\* a request arriving while a value stored for its key is at most 6 hours old
\* issues no fetch and changes nothing; one arriving later fetches again
FetchesOnlyAfterSixHours ==
    /\ \A r \in BagToSet(reqs') :
          ArrivedAndFetched(r) => ~StoredWithinSixHours(r.key)
    /\ (started' = started + 1 /\ resp'.status = 200) =>
          /\ resp'.hit
          /\ resp'.fetched = <<>>
          /\ StoredWithinSixHours(resp'.key)
          /\ reqs' = reqs
          /\ store' = store

\* C7 as stated: once a request has populated the cache for a key, every later
\* request for that key within 6 hours issues no fetch and is served the
\* observations and the radius which that populating request recorded; a
\* request arriving after the 6 hours fetches again.
C7_ServedFromPopulatingRequest ==
    /\ [](resp.status = 200 /\ resp.hit =>
             \A i \in 1..Len(PopsOf(resp.key)) :
                 now <= PopsOf(resp.key)[i].at + SixHours =>
                     /\ resp.source.observations = PopsOf(resp.key)[i].value.observations
                     /\ resp.observation_radius_km = PopsOf(resp.key)[i].value.radius)
    /\ [][FetchesOnlyAfterSixHours]_vars

\* C7 as amended: the observations and the radius served are those most
\* recently stored for the key, and the 6 hours run from that store.
C7_ServedFromLatestStore ==
    /\ [](resp.status = 200 /\ resp.hit =>
             LET p == PopsOf(resp.key)[Len(PopsOf(resp.key))]
             IN  /\ now <= p.at + SixHours
                 /\ resp.source = p.value
                 /\ resp.observation_radius_km = p.value.radius)
    /\ [](resp.status = 200 /\ ~resp.hit =>
             PopsOf(resp.key)[Len(PopsOf(resp.key))] = [value |-> resp.source, at |-> now])
    /\ [][FetchesOnlyAfterSixHours]_vars

\* two cold requests both stored, 3 km then 10 km; a request arriving exactly
\* 6 hours later is served the second value without a fetch
C7_Witness ==
    /\ resp.status = 200
    /\ resp.hit
    /\ now = SixHours
    /\ Len(PopsOf(resp.key)) = 2
    /\ PopsOf(resp.key)[1].value.radius = 3
    /\ PopsOf(resp.key)[2].value.radius = 10
    /\ resp.observation_radius_km = 10

\* lat or lon is missing, is no number, or lies outside [-90, 90] / [-180, 180]
InvalidCoordinates(q) ==
    \/ q.lat \in {Undefined, Junk}
    \/ q.lon \in {Undefined, Junk}
    \/ q.lat < -900000 \/ q.lat > 900000
    \/ q.lon < -1800000 \/ q.lon > 1800000

\* the step received a request with invalid coordinates
ReceivedInvalid == started' = started + 1 /\ InvalidCoordinates(resp'.about)

\* the step answered 400 and touched neither the cache nor the upstream
Rejected400 ==
    /\ resp'.status = 400
    /\ resp'.fetched = <<>>
    /\ reqs' = reqs
    /\ store' = store
    /\ pops' = pops

\* C17 as stated: a request whose lat or lon is missing, non-numeric or out of
\* range is answered 400 with no side effect: no upstream fetch, the cache
\* neither read nor written.
C17_InvalidCoordinatesRejected ==
    [][ReceivedInvalid => Rejected400]_vars

\* C17 as amended: the same, for a server that has an eBird credential.
C17_InvalidRejectedWhenConfigured ==
    [][(ReceivedInvalid /\ isAvailable(apiKey)) => Rejected400]_vars

\* a latitude just out of range rejected while the cache holds an entry and
\* another request is suspended at its fetch
C17_Witness ==
    /\ resp.status = 400
    /\ resp.about.lat = 900001
    /\ isAvailable(apiKey)
    /\ store # <<>>
    /\ reqs # EmptyBag

\* no eBird credential: the variable is unset or empty, or still holds the
\* placeholder of the sample configuration
NotConfigured == apiKey \in {"", "your_ebird_api_key_here"}

\* the step resumed a suspended request and ended it with an error response
FailedAfterFetch ==
    /\ started' = started
    /\ resp'.status \notin {0, 200}

\* C18: with no eBird credential configured every request is answered 503,
\* whatever its query parameters, no upstream fetch is issued and the cache is
\* unchanged; an upstream failure is never reported as 503.
C18_NotConfiguredIs503 ==
    /\ [][(started' = started + 1 /\ NotConfigured) =>
             /\ resp'.status = 503
             /\ resp'.fetched = <<>>
             /\ reqs' = reqs
             /\ store' = store
             /\ pops' = pops]_vars
    /\ [](resp.status = 503 => NotConfigured /\ resp.fetched = <<>>)
    /\ [][FailedAfterFetch => resp'.status = 500 /\ resp'.fetched # <<>>]_vars

\* 503 for a request whose coordinates are invalid as well, as the third
\* request received
C18_Witness ==
    /\ resp.status = 503
    /\ apiKey = "your_ebird_api_key_here"
    /\ InvalidCoordinates(resp.about)
    /\ started = 3
    /\ store = <<>>
    /\ reqs = EmptyBag

\* the response reports an upstream failure (its about is the cache key)
UpstreamFailureReported == resp.status \in 500..599 /\ resp.fetched # <<>>

\* C19: when the upstream fetch fails and a raw-observation set was cached
\* before for the same key, the endpoint answers from that set and swallows the
\* failure; the failure is propagated as a 5xx only when no such set was ever
\* cached.
C19_StaleWhileError ==
    UpstreamFailureReported => PopsOf(resp.about) = <<>>

\* what does hold: every upstream failure is answered 500, whatever the cache
\* holds or held for the key
UpstreamFailureAlways500 ==
    [][(started' = started /\ reqs' # reqs /\ resp'.status # 200 /\ resp'.status # 0) =>
          /\ resp'.status = 500
          /\ store' = store]_vars

\* what the cache holds at time t: the entries a get would still return
LiveEntries(st, t) == [k \in {x \in DOMAIN st : t <= st[x].expiresAt} |-> st[k]]

\* the step left a request suspended at a fetch: it arrived and missed, or
\* its tight result was sparse
SuspendedAtFetch == resp'.status = 0 /\ reqs' # reqs

Last(seq) == seq[Len(seq)]
FirstN(seq, n) == SubSeq(seq, 1, Min(n, Len(seq)))

\* C22: in every successful response, on a hit as on a miss, all_species is
\* deduplicateAndScore of the cached raw observations with this request's hour,
\* notable_species is the first min(3, n) entries of all_species in the same
\* order and total_species_count is the length of all_species; requests with
\* the same coordinates and different hours are each ranked by their own hour.
C22_RankedPerRequest ==
    /\ [](resp.status = 200 =>
             /\ resp.key \in DOMAIN store
             /\ store[resp.key].value = resp.source
             /\ resp.all_species \in
                    deduplicateAndScore(resp.source.observations, resp.locationHour)
             /\ resp.notable_species = FirstN(resp.all_species, 3)
             /\ resp.total_species_count = Len(resp.all_species)
             /\ resp.hit => resp.locationHour = LocationHourOf(resp.about.hour))
    /\ [][/\ \A r \in BagToSet(reqs') :
                ArrivedAndFetched(r) => r.locationHour = LocationHourOf(resp'.about.hour)
          /\ (resp'.status = 200 /\ ~resp'.hit) =>
                \E r \in BagToSet(reqs) :
                    /\ reqs' = reqs (-) SetToBag({r})
                    /\ resp'.locationHour = r.locationHour]_vars

\* a hit with hour 3 on five cached species: ranked by distance from 3, which
\* is not the order a request without hour gets, and three of them notable
C22_Witness ==
    /\ resp.status = 200
    /\ resp.hit
    /\ resp.about.hour = 3
    /\ resp.total_species_count = 5
    /\ Len(resp.notable_species) = 3
    /\ resp.all_species \notin deduplicateAndScore(resp.source.observations, Null)

\* C26: under every interleaving of requests for one cold key each request may
\* fetch on its own, yet the cache entry is always absent or a complete
\* {observations, radius} pair written by one request, and every response
\* reports the radius of the fetch that produced the observations its species
\* lists were derived from.
C26_EntryWrittenWhole ==
    /\ [](\A k \in DOMAIN store :
             \E i \in 1..Len(PopsOf(k)) : store[k].value = PopsOf(k)[i].value)
    /\ [](resp.status = 200 =>
             /\ resp.observation_radius_km = resp.source.radius
             /\ CodesOf(resp.all_species) = CodesOf(resp.source.observations)
             /\ ~resp.hit =>
                   /\ resp.source.radius = Last(resp.fetched)
                   /\ resp.source.observations = transformObservations(Last(resp.bodies))
             /\ resp.hit =>
                   \E i \in 1..Len(PopsOf(resp.key)) : resp.source = PopsOf(resp.key)[i].value)
    /\ [][pops' # pops =>
             /\ resp'.status = 200
             /\ ~resp'.hit
             /\ resp'.source.radius = Last(resp'.fetched)
             /\ resp'.source.observations = transformObservations(Last(resp'.bodies))
             /\ pops' = (resp'.key :> Append(PopsOf(resp'.key),
                                        [value |-> resp'.source, at |-> now])) @@ pops
             /\ store'[resp'.key].value = resp'.source]_vars

\* three requests missed the cold cache together; the entry holds the pair of
\* the one that stored last, a 10 km result, over 3 km results stored before
C26_Witness ==
    /\ resp.status = 200
    /\ ~resp.hit
    /\ now = 0
    /\ Len(PopsOf(resp.key)) = 3
    /\ PopsOf(resp.key)[1].value.radius = 3
    /\ resp.fetched = <<3, 10>>
    /\ store[resp.key].value = [observations |-> transformObservations(resp.bodies[2]),
                                radius |-> 10]

\* C29: serving a request never changes the cached raw observations:
\* deduplicateAndScore and selectNotableSpecies leave their input as it was, so
\* after any sequence of hits with arbitrary hours the cached list and radius
\* are what the populating request stored, and the ranking of a request does
\* not depend on the requests served before it.
C29_ServingLeavesCacheAlone ==
    /\ [](\A k \in DOMAIN store : store[k].value = Last(PopsOf(k)).value)
    /\ [][(resp'.status = 200 /\ resp'.hit) =>
             /\ store' = store
             /\ pops' = pops
             /\ resp'.all_species \in
                    deduplicateAndScore(Last(PopsOf(resp'.key)).value.observations,
                                        LocationHourOf(resp'.about.hour))]_vars

\* the third request, a hit with hour 3, after one store and an earlier hit or
\* rejection: the entry still holds the stored list, in its stored order
C29_Witness ==
    /\ resp.status = 200
    /\ resp.hit
    /\ started = 3
    /\ resp.about.hour = 3
    /\ Len(PopsOf(resp.key)) = 1
    /\ store[resp.key].value = PopsOf(resp.key)[1].value
    /\ resp.all_species # store[resp.key].value.observations

----------------------------------------------------------------------------
(* Properties of the Cache class (SpecCache).                              *)

\* C8: get(key) on an entry whose expiry time has passed returns null and
\* removes that entry from the store, so that size() decreases by one; an
\* entry set with a ttl of 1 second is gone for a get more than 1 second later.
C8_GetDropsExpired ==
    [][\A k \in CacheKeys :
          (/\ lastOp'.op = "get"
           /\ lastOp'.key = k
           /\ k \in DOMAIN store
           /\ now > store[k].expiresAt)
             => /\ lastOp'.ret = NoValue
                /\ k \notin DOMAIN store'
                /\ CacheSize(store') = CacheSize(store) - 1
                /\ \A k2 \in DOMAIN store \ {k} :
                      k2 \in DOMAIN store' /\ store'[k2] = store[k2]]_vars

\* set(key, v, 1), then a get more than one second later that found the entry
\* expired and returned null
C8_Witness ==
    /\ lastOp.op = "get"
    /\ lastOp.ret = NoValue
    /\ lastOp.prev # NoValue
    /\ lastOp.key \in DOMAIN lastSet
    /\ lastSet[lastOp.key].expiresAt + 1000 > now
    /\ now > lastSet[lastOp.key].expiresAt
    /\ lastOp.prev[1] = lastSet[lastOp.key]
    /\ lastOp.key \notin DOMAIN store
    /\ store # <<>>

\* C9: set(key, value, ttl) replaces any existing entry for key, value and
\* expiry both (the new expiry is now + ttl seconds whatever the entry held
\* before), and leaves the entry of every other key unchanged.
C9_SetOverwrites ==
    [][lastOp'.op = "set" =>
          LET k == lastOp'.key
              ttlSeconds == IF lastOp'.ttl = Undefined THEN 1800 ELSE lastOp'.ttl
          IN  /\ DOMAIN store' = DOMAIN store \cup {k}
              /\ store'[k] = [value |-> lastOp'.value,
                              expiresAt |-> now + ttlSeconds * 1000]
              /\ \A k2 \in DOMAIN store \ {k} : store'[k2] = store[k2]]_vars

\* a set that replaced a live entry holding another value and another expiry,
\* while the other key held an entry
C9_Witness ==
    /\ lastOp.op = "set"
    /\ lastOp.prev # NoValue
    /\ lastOp.prev[1].value # lastOp.value
    /\ lastOp.prev[1].expiresAt > store[lastOp.key].expiresAt
    /\ now <= lastOp.prev[1].expiresAt
    /\ \E k2 \in DOMAIN store : k2 # lastOp.key

\* C10: get(key) returns a non-null v only if the most recent set on key stored
\* v, no clear happened since that set, and the current time is not past that
\* set's expiry; an entry leaves the store only through a get on its own key
\* once it has expired or through clear, and size() counts every stored entry,
\* expired or not.
C10_GetReturnsLastLiveSet ==
    /\ [](lastOp.op = "get" /\ lastOp.ret # NoValue =>
             /\ lastOp.key \in DOMAIN lastSet
             /\ lastOp.ret = Some(lastSet[lastOp.key].value)
             /\ now <= lastSet[lastOp.key].expiresAt)
    /\ [](lastOp.op = "size" => lastOp.ret = Some(Cardinality(DOMAIN store)))
    /\ [][\A k \in DOMAIN store :
             k \notin DOMAIN store' =>
                \/ lastOp'.op = "clear"
                \/ /\ lastOp'.op = "get"
                   /\ lastOp'.key = k
                   /\ now > store[k].expiresAt]_vars

\* after time has passed, a get returned the value of the most recent set on
\* its key while an expired entry of the other key was still stored
C10_Witness ==
    /\ lastOp.op = "get"
    /\ lastOp.key \in DOMAIN lastSet
    /\ lastOp.ret = Some(lastSet[lastOp.key].value)
    /\ now > 0
    /\ \E k \in DOMAIN store : k # lastOp.key /\ now > store[k].expiresAt

----------------------------------------------------------------------------
(* Properties of the activity model (SpecScore).                           *)

HourBandTerm(hour) ==
    CASE hour \in 5..7   -> 30
      [] hour = 8        -> 20
      [] hour \in 9..11  -> 10
      [] hour \in 12..14 -> -5
      [] hour \in 15..16 -> 10
      [] hour \in 17..18 -> 20
      [] hour = 19       -> 5
      [] OTHER           -> -20
RainTerm(rain) ==
    IF rain = Undefined THEN 0 ELSE IF rain > 60 THEN -20 ELSE IF rain > 30 THEN -10 ELSE 0
WindTerm(wind) ==
    IF wind = Undefined THEN 0 ELSE IF wind > 10 THEN -15 ELSE IF wind > 6 THEN -5 ELSE 0
SeasonTerm(month) ==
    CASE month \in {2, 3, 4}  -> 15
      [] month \in {8, 9}     -> 10
      [] month \in {11, 0, 1} -> -5
      [] OTHER                -> 0
TempTerm(temp) ==
    IF temp = Undefined THEN 0
    ELSE IF temp \in 10..22 THEN 5 ELSE IF temp < 0 THEN -10 ELSE IF temp > 30 THEN -10 ELSE 0
CloudTerm(cloud, rain) ==
    IF cloud = Undefined \/ rain = Undefined THEN 0
    ELSE IF 30 < cloud /\ cloud < 70 /\ rain < 20 THEN 5 ELSE 0
StatedSum(in) ==
    50 + HourBandTerm(in.hour) + RainTerm(in.weather.rain_probability)
       + WindTerm(in.weather.wind_speed_ms) + SeasonTerm(in.month)
       + TempTerm(in.weather.temp_c)
       + CloudTerm(in.weather.cloud_percent, in.weather.rain_probability)
StatedScore(in) ==
    IF StatedSum(in) < 0 THEN 0 ELSE IF StatedSum(in) > 100 THEN 100 ELSE StatedSum(in)

\* hour 6, rain 0, wind 2, cloud 50, month 3, no temperature penalty
DawnExample ==
    /\ sIn.hour = 6
    /\ sIn.month = 3
    /\ sIn.weather.rain_probability = 0
    /\ sIn.weather.wind_speed_ms = 2
    /\ sIn.weather.cloud_percent = 50
    /\ sIn.weather.temp_c \in {Undefined, 10}

\* C12: the score equals clamp(0, 100, 50 + hourBand + rain + wind + season +
\* temp + cloud) with the stated bands and thresholds; hour 6, rain 0, wind 2,
\* cloud 50, month 3 gives 100 with the label "Best time to spot birds".
C12_ScoreFormula ==
    spc = "scored" =>
        /\ sOut.first.score = StatedScore(sIn)
        /\ DawnExample =>
              /\ sOut.first.score = 100
              /\ sOut.first.label = "Best time to spot birds"

C12_Witness ==
    /\ spc = "scored"
    /\ DawnExample
    /\ sIn.weather.temp_c = Undefined
    /\ sOut.first.score = 100
    /\ StatedSum(sIn) = 100

\* the running score after the rain penalty, and after the wind penalty
AfterRainScore(in) == 50 + HourBandTerm(in.hour) + RainTerm(in.weather.rain_probability)
AfterWindScore(in) == AfterRainScore(in) + WindTerm(in.weather.wind_speed_ms)
RainOverrides(in) ==
    /\ in.weather.rain_probability # Undefined
    /\ in.weather.rain_probability > 60
    /\ AfterRainScore(in) < 40
WindOverrides(in) ==
    /\ in.weather.wind_speed_ms # Undefined
    /\ in.weather.wind_speed_ms > 10
    /\ AfterWindScore(in) < 40

\* hour 22, rain 70, wind 12, month 0
NightStormExample ==
    /\ sIn.hour = 22
    /\ sIn.month = 0
    /\ sIn.weather.rain_probability = 70
    /\ sIn.weather.wind_speed_ms = 12

\* C13: the label is the hour-band label unless a weather clause overrides it:
\* "Rain keeping birds hidden" exactly when rain > 60 and the score after the
\* rain penalty is below 40, then "Too windy for most birds" exactly when
\* wind > 10 and the score after rain and wind penalties is below 40, the wind
\* label winning; season, temperature and cloud never change it.  Hour 22,
\* rain 70, wind 12, month 0 gives score 0, "Too windy for most birds".
C13_LabelOverrides ==
    spc = "scored" =>
        /\ sOut.first.label =
              IF WindOverrides(sIn) THEN "Too windy for most birds"
              ELSE IF RainOverrides(sIn) THEN "Rain keeping birds hidden"
              ELSE HourBand(sIn.hour).label
        /\ NightStormExample =>
              /\ sOut.first.score = 0
              /\ sOut.first.label = "Too windy for most birds"

\* both clauses applied and the wind label won
C13_Witness ==
    /\ spc = "scored"
    /\ NightStormExample
    /\ RainOverrides(sIn)
    /\ WindOverrides(sIn)
    /\ sOut.first.label = "Too windy for most birds"
    /\ sOut.first.score = 0

\* the client was handed the hour and month of the server's clock
SameClock == sIn.loc = [hour |-> sIn.hour, month |-> sIn.month]

\* C14: the client mirror agrees with the server: scoreHour returns the same
\* score and label on both sides for every input, and calculateActivityCurve
\* the same curve, current, dawn_peak and dusk_peak when the client is given
\* the hour and month the server reads from its clock.
C14_ClientMirrorsServer ==
    /\ spc = "scored" => sOut.client = sOut.first
    /\ (spc = "curved" /\ SameClock) =>
          /\ sOut.client.curve = sOut.server.curve
          /\ sOut.client.current = sOut.server.current
          /\ sOut.client.dawn_peak = sOut.server.dawn_peak
          /\ sOut.client.dusk_peak = sOut.server.dusk_peak

\* hour 0 and a month handed to the client that its own clock does not show
C14_Witness ==
    /\ spc = "curved"
    /\ SameClock
    /\ sIn.hour = 0
    /\ sIn.month = 11
    /\ sIn.month # ClientClock.month
    /\ sOut.client.current.hour = 0
    /\ sOut.client = sOut.server

WindowMax(curve, lo, hi) ==
    CHOOSE m \in {curve[h].score : h \in lo..hi} : \A h \in lo..hi : curve[h].score <= m
EarliestAt(curve, lo, hi, m) ==
    CHOOSE h \in lo..hi : curve[h].score = m /\ \A k \in lo..(h - 1) : curve[k].score # m
StatedPeak(curve, lo, hi, dflt) ==
    LET m == WindowMax(curve, lo, hi)
    IN  IF m > 0 THEN [hour |-> EarliestAt(curve, lo, hi, m), score |-> m]
        ELSE [hour |-> dflt, score |-> 0]

\* C15: dawn_peak.score is the maximum score over hours 5..9 and dusk_peak.score
\* the maximum over 15..19, each peak's hour the earliest hour of its window
\* attaining the maximum when that is above 0; a window scoring 0 throughout
\* gives {hour: 6, score: 0} for dawn and {hour: 17, score: 0} for dusk.
C15_PeaksAreWindowMaxima ==
    spc = "curved" =>
        /\ sOut.server.dawn_peak = StatedPeak(sOut.server.curve, 5, 9, 6)
        /\ sOut.server.dusk_peak = StatedPeak(sOut.server.curve, 15, 19, 17)

\* several hours attain the maximum of each window and the earliest is reported
C15_Witness ==
    /\ spc = "curved"
    /\ sOut.server.curve[5].score = sOut.server.curve[7].score
    /\ sOut.server.dawn_peak = [hour |-> 5, score |-> sOut.server.curve[5].score]
    /\ sOut.server.curve[17].score = sOut.server.curve[18].score
    /\ sOut.server.dusk_peak = [hour |-> 17, score |-> sOut.server.curve[17].score]
    /\ sOut.server.dusk_peak.score > 0

WeatherLabels == {"Rain keeping birds hidden", "Too windy for most birds"}
HasWeatherLabel(point) == point.label \in WeatherLabels

\* C30 as stated: whenever scoreHour returns a weather label the score it
\* returns is below 40, so a point of the curve carrying a weather label is
\* never classified 'moderate' or 'high'.
C30_WeatherLabelBelow40 ==
    /\ spc = "scored" =>
          /\ HasWeatherLabel(sOut.first) => sOut.first.score < 40
          /\ HasWeatherLabel(sOut.client) => sOut.client.score < 40
    /\ spc = "curved" =>
          /\ \A h \in 0..23 :
                HasWeatherLabel(sOut.server.curve[h]) =>
                    LevelOf(sOut.server.curve[h].score) = "low"
          /\ HasWeatherLabel(sOut.server.current) => sOut.server.current.level = "low"

\* C30 as amended: a weather label means the running score was below 40 when
\* its clause was evaluated; season, temperature and cloud are added after, so
\* the returned score is at most 55 with the rain label and 60 with the wind
\* label: such a point is never 'high', but it may be 'moderate'.
C30_WeatherLabelNeverHigh ==
    /\ spc = "scored" =>
          /\ sOut.first.label = "Rain keeping birds hidden" =>
                /\ AfterRainScore(sIn) < 40
                /\ sOut.first.score <= 55
          /\ sOut.first.label = "Too windy for most birds" =>
                /\ AfterWindScore(sIn) < 40
                /\ sOut.first.score <= 60
          /\ HasWeatherLabel(sOut.client) => sOut.client.score <= 60
    /\ spc = "curved" =>
          /\ \A h \in 0..23 :
                HasWeatherLabel(sOut.server.curve[h]) =>
                    LevelOf(sOut.server.curve[h].score) # "high"
          /\ HasWeatherLabel(sOut.server.current) =>
                sOut.server.current.level \in {"low", "moderate"}

\* the current point of a curve carries the rain label and is 'moderate'
C30_Witness ==
    /\ spc = "curved"
    /\ sOut.server.current.label = "Rain keeping birds hidden"
    /\ sOut.server.current.score >= 40
    /\ sOut.server.current.level = "moderate"

----------------------------------------------------------------------------
(* Properties of the helpers and of the query handling (SpecHelpers).      *)

\* C25: hourDistance(a, b) = min(|a-b|, 24-|a-b|) for all hours a, b in 0..23;
\* it is symmetric, zero exactly when a = b, never exceeds 12, and d(23,1) = 2,
\* d(0,12) = 12, d(5,5) = 0.
C25_HourDistanceCircular ==
    hpc = "measured" =>
        /\ hOut.d = CircularDistance(hIn.a, hIn.b)
        /\ hOut.d = hOut.rev
        /\ (hOut.d = 0) <=> (hIn.a = hIn.b)
        /\ hOut.d \in 0..12
        /\ (hIn.a = 23 /\ hIn.b = 1) => hOut.d = 2
        /\ (hIn.a = 0 /\ hIn.b = 12) => hOut.d = 12
        /\ (hIn.a = 5 /\ hIn.b = 5) => hOut.d = 0

\* the distance of 23 and 1 has been computed across midnight
C25_Witness ==
    /\ hpc = "measured"
    /\ hIn = [a |-> 23, b |-> 1]
    /\ hOut.d = 2

StatedReferenceHour(hour) ==
    IF hour = Undefined THEN Null
    ELSE IF hour = Junk THEN 0
    ELSE IF hour < 0 THEN 0
    ELSE IF hour > 23 THEN 23
    ELSE hour

\* C28: the reference hour passed to ranking is null exactly when the hour
\* parameter is absent and otherwise an integer in 0..23: values below 0 or
\* above 23 are clamped, a non-numeric value becomes 0; a supplied hour never
\* causes a 400 and never reaches ranking out of range.
C28_ReferenceHourInRange ==
    hpc = "parsed" =>
        /\ hOut.status = 400 <=>
               (isAvailable(hIn.apiKey) /\ InvalidCoordinates(hIn.query))
        /\ hOut.status = 0 =>
               /\ (hOut.locationHour = Null) <=> (hIn.query.hour = Undefined)
               /\ hIn.query.hour # Undefined => hOut.locationHour \in 0..23
               /\ hOut.locationHour = StatedReferenceHour(hIn.query.hour)

\* an hour of 99 was supplied and the request went on with reference hour 23
C28_Witness ==
    /\ hpc = "parsed"
    /\ hIn.query.hour = 99
    /\ hOut.status = 0
    /\ hOut.locationHour = 23

WeatherDefaults ==
    [temp_c |-> 10, rain_probability |-> 0, wind_speed_ms |-> 0, cloud_percent |-> 50]

\* the weather the claim has the endpoint use: the supplied number, the
\* default for an absent parameter (and for text that is no number)
StatedWeather(q) ==
    LET pick(x, d) == IF x = Undefined \/ x = Junk THEN d ELSE x
    IN  [temp_c           |-> pick(q.temp_c, WeatherDefaults.temp_c),
         rain_probability |-> pick(q.rain, WeatherDefaults.rain_probability),
         wind_speed_ms    |-> pick(q.wind, WeatherDefaults.wind_speed_ms),
         cloud_percent    |-> pick(q.cloud, WeatherDefaults.cloud_percent)]

\* C21: the endpoint builds the activity curve from the caller's weather: for
\* each of temp_c, rain, wind and cloud the value used is the one supplied
\* whenever a numeric value is supplied (0 included), the default (10, 0, 0, 50)
\* only when the parameter is absent.
C21_SuppliedWeatherUsed ==
    (hpc = "parsed" /\ hOut.status = 0) =>
        /\ hOut.weather = StatedWeather(hIn.query)
        /\ hOut.activity = calculateActivityCurve(StatedWeather(hIn.query),
                               hIn.clock.hour, hIn.clock.month)

\* what does hold: a supplied number other than 0 is used, and 0 is used for
\* rain and wind, whose default it is
SuppliedNonZeroWeatherUsed ==
    (hpc = "parsed" /\ hOut.status = 0) =>
        LET q == hIn.query
        IN  /\ (q.temp_c # 0 /\ q.cloud # 0) => hOut.weather = StatedWeather(q)
            /\ hOut.weather.rain_probability = StatedWeather(q).rain_probability
            /\ hOut.weather.wind_speed_ms = StatedWeather(q).wind_speed_ms
            /\ q.temp_c = 0 => hOut.weather.temp_c = 10
            /\ q.cloud = 0 => hOut.weather.cloud_percent = 50

----------------------------------------------------------------------------
(* Properties of the client's loadBirdData (SpecClient).                   *)

ThreeHours == 3 * 60 * 60 * 1000

\* a call of loadBirdData began in this step; the answer to one arrived
LoadBegan == loadsStarted' = loadsStarted + 1
AnswerArrived == BagCardinality(loads') < BagCardinality(loads)

\* the payload with its activity recomputed from the caller's current weather
WithCurrentActivity(payload, call) ==
    [payload EXCEPT !.activity =
        clientCalculateActivityCurve(call.weather, call.locationTime,
                                     ClientClock.hour, ClientClock.month)]

\* C23: loadBirdData returns a cached payload less than 3 hours old (by its
\* generated_at) with its activity recomputed from the current weather and
\* issues no network request; with no cached payload, or one 3 hours old or
\* more, it issues exactly one request and on success the response replaces the
\* cached payload.
C23_FreshPayloadServedLocally ==
    /\ [][LoadBegan =>
             IF birdData # NoValue /\ now - birdData[1].generated_at < ThreeHours
             THEN /\ returned'.kind = "returned"
                  /\ returned'.requests = 0
                  /\ returned'.data = Some(WithCurrentActivity(birdData[1], returned'.call))
                  /\ loads' = loads
                  /\ birdData' = birdData
             ELSE /\ returned' = NoReturn
                  /\ BagCardinality(loads') = BagCardinality(loads) + 1
                  /\ birdData' = birdData]_vars
    /\ [][AnswerArrived =>
             /\ BagCardinality(loads') = BagCardinality(loads) - 1
             /\ returned'.requests = 1
             /\ returned'.status = 200 =>
                   /\ birdData' = returned'.data
                   /\ returned'.data[1].generated_at = now]_vars

\* a payload one millisecond short of 3 hours old was returned without a
\* request, with an activity curve other than the stored one
C23_Witness ==
    /\ returned.kind = "returned"
    /\ returned.requests = 0
    /\ now - returned.data[1].generated_at = ThreeHours - 1
    /\ birdData # NoValue
    /\ returned.data[1].generated_at = birdData[1].generated_at
    /\ returned.data[1].activity # birdData[1].activity

\* C24: on a failed fetch, a 503 'Bird data unavailable' answer makes
\* loadBirdData return null and mark the feature unavailable even when a stale
\* cached payload exists; any other failure returns the stale cached payload,
\* of any age, with its activity recomputed from the current weather, or null
\* when there is none; the stored cache entry is not modified in either case.
C24_FailedFetchFallsBack ==
    [][(AnswerArrived /\ returned'.status # 200) =>
          /\ birdData' = birdData
          /\ IF returned'.status = 503
             THEN /\ returned'.data = NoValue
                  /\ featureAvailable' = Some(FALSE)
             ELSE /\ featureAvailable' = featureAvailable
                  /\ returned'.data =
                        IF returned'.call.cached = NoValue THEN NoValue
                        ELSE Some(WithCurrentActivity(returned'.call.cached[1],
                                                      returned'.call))]_vars

\* a 503 answered a call that had found a payload 3 hours old: null returned,
\* the feature marked unavailable, the payload still stored
C24_Witness ==
    /\ returned.kind = "returned"
    /\ returned.status = 503
    /\ returned.data = NoValue
    /\ featureAvailable = Some(FALSE)
    /\ returned.call.cached # NoValue
    /\ birdData = returned.call.cached
    /\ now - birdData[1].generated_at >= ThreeHours

RequestedLocation(call) == [lat |-> Round3(call.lat), lon |-> Round3(call.lon)]

\* C27: loadBirdData(lat, lon, ...) never returns a cached payload fetched for
\* another location: the cache entry is keyed by the rounded coordinates, so
\* after the location changes a fresh request is made.
C27_PayloadIsForLocation ==
    (returned.kind = "returned" /\ returned.data # NoValue) =>
        returned.data[1].location = RequestedLocation(returned.call)

\* what does hold: a payload the server has just answered with is for the
\* location asked for
FetchedPayloadIsForLocation ==
    (returned.kind = "returned" /\ returned.status = 200) =>
        returned.data[1].location = RequestedLocation(returned.call)

====
